---- MODULE Spec2Model ----
(***************************************************************************)
(* State-machine model of custom_components/immich/hub.py: the ImmichHub   *)
(* adapter, its shared aiohttp session and its eight accessor coroutines.  *)
(*                                                                         *)
(* Every accessor is a coroutine with one suspension point, the            *)
(* `async with self.session.get/post(...)` statement.  The model splits    *)
(* each accessor there: the *_call action issues the request and suspends, *)
(* the *_resume action receives the server's reaction and runs the rest of *)
(* the coroutine body to its return or raise.  A reaction is either a      *)
(* transport failure (the session raises an aiohttp.ClientError) or a      *)
(* fully received response (status, body).                                 *)
(***************************************************************************)
EXTENDS Integers, Sequences, FiniteSets, TLC

\* ------------------------------------------------------------------ bounds
MaxCalls == 2     \* coroutines that may be in flight at the same time
MaxAssets == 3    \* assets carried by one response body, over all its entries
MaxEntries == 2   \* memory-lane entries (or albums) in one response body
MaxBytes == 2     \* length of a thumbnail body

VARIABLES
    hub,      \* the ImmichHub instance: its host and the state of self.session
    calls,    \* the accessor coroutines: caller slot -> suspended coroutine
    result    \* how the coroutine that finished last ended

vars == <<hub, calls, result>>

Callers == 1..MaxCalls

Ops == {"authenticate", "get_my_user_info", "get_asset_info", "download_asset",
        "list_favorite_images", "list_all_albums", "list_album_images",
        "list_memory_lane_images"}

\* ------------------------------------------------------- python values
\* A Python value is a tagged record [tag, v].  A dict is a record with a
\* field `keys`, the set of keys present; a field whose key is absent
\* holds a filler that the code cannot read (d[k] raises KeyError).
PyNone == [tag |-> "none", v |-> "None"]
PyBool(b) == [tag |-> "bool", v |-> b]
PyBytes(s) == [tag |-> "bytes", v |-> s]
PyList(s) == [tag |-> "list", v |-> s]
PyDict(d) == [tag |-> "dict", v |-> d]
PyText(t) == [tag |-> "text", v |-> t]
PyInt(n) == [tag |-> "int", v |-> n]

Has(d, k) == k \in d.keys

\* JSON scalars under a key, written as their JSON text, and bool(value).
JsonScalars == {"true", "false", "null", "0", "1", "\"\"", "\"ok\""}
Truthy(j) == j \notin {"false", "null", "0", "\"\""}

\* dict.get(key): the value, or None when the key is absent.
DictGet(d, k) == IF Has(d, k) THEN d[k] ELSE "null"

\* ------------------------------------------------- exceptions and errors
\* What the session raises on a transport-level failure: all of them are
\* aiohttp.ClientError instances, the class the except clauses name.
ClientErrors == {"ConnectionRefused", "DnsFailure", "Timeout", "TlsFailure"}
IsClientError(e) == e \in ClientErrors

\* The three exception classes the module defines.
HubErrors == {"CannotConnect", "InvalidAuth", "ApiError"}

\* ------------------------------------------------------ coroutine outcomes
\* The trace of one coroutine body: the events it produced in order
\* ("request", "log", "return", "raise"), the log lines, and how it ended.
NoCause == "none"
Return(value) ==
    [events |-> <<"return">>, logs |-> <<>>,
     outcome |-> [kind |-> "return", value |-> value, exc |-> "none", cause |-> NoCause]]
Raise(exc, cause) ==
    [events |-> <<"raise">>, logs |-> <<>>,
     outcome |-> [kind |-> "raise", value |-> PyNone, exc |-> exc, cause |-> cause]]

\* _LOGGER.error(fmt, arg) followed by the rest of the body.
LogErrorThen(fmt, arg, rest) ==
    [events |-> <<"log">> \o rest.events,
     logs |-> <<[fmt |-> fmt, arg |-> arg]>> \o rest.logs,
     outcome |-> rest.outcome]

\* ------------------------------------------------------------- reactions
Statuses == {200, 201, 204, 400, 401, 404, 500}
TransportFailure(e) == [kind |-> "error", error |-> e, status |-> 0, body |-> PyNone]
Response(status, body) == [kind |-> "response", error |-> "none", status |-> status, body |-> body]

\* response.text(), response.json() and response.read() of a received response.
Text(r) == PyText(r.body)
Json(r) == r.body.v
Read(r) == r.body.v

ErrorBodies == {PyText("Unauthorized")}

BoundedSeq(S, n) == UNION {[1..k -> S] : k \in 0..n}

\* An asset mapping as the server sends it; "<absent>" stands for an
\* asset that carries no "type" key.
AssetTypes == {"IMAGE", "VIDEO"}
NoType == "<absent>"
AssetKinds == AssetTypes \cup {NoType}
Asset(id, t) ==
    [keys |-> IF t = NoType THEN {"id"} ELSE {"id", "type"}, id |-> id, type |-> t]
AssetLists ==
    {[i \in 1..Len(ts) |-> Asset(i, ts[i])] : ts \in BoundedSeq(AssetKinds, MaxAssets)}

\* 200 bodies of /api/auth/validateToken: a JSON object with or without authStatus.
AuthBodies ==
    {PyDict([keys |-> {"authStatus"}, authStatus |-> j]) : j \in JsonScalars}
    \cup {PyDict([keys |-> {}, authStatus |-> "null"])}
UserBodies ==
    {PyDict([keys |-> {"id", "email"}, id |-> "user", email |-> "u@example.org"]),
     PyDict([keys |-> {}, id |-> "", email |-> ""])}
AssetBodies == {PyDict(Asset("asset", t)) : t \in AssetKinds}
ThumbnailBodies == {PyBytes(b) : b \in BoundedSeq({0, 255}, MaxBytes)}
\* 200 bodies of /api/search/metadata: {"assets": {"items": [...]}}, or a
\* body missing "assets" or "items".
FavoriteBodies ==
    {PyDict([keys |-> {"assets"}, assets |-> [keys |-> {"items"}, items |-> l]]) :
        l \in AssetLists}
    \cup {PyDict([keys |-> {"assets"}, assets |-> [keys |-> {}, items |-> <<>>]]),
          PyDict([keys |-> {}, assets |-> [keys |-> {}, items |-> <<>>]])}
AlbumListBodies ==
    {PyList([i \in 1..n |-> [keys |-> {"id", "assets"}, id |-> i, assets |-> <<>>]]) :
        n \in 0..MaxEntries}
AlbumBodies ==
    {PyDict([keys |-> {"id", "assets"}, id |-> "album", assets |-> l]) : l \in AssetLists}
    \cup {PyDict([keys |-> {"id"}, id |-> "album", assets |-> <<>>])}

\* 200 bodies of /api/assets/memory-lane: a list of entries, each with an
\* "assets" list (or lacking the key).  An asset's id is its position
\* <<entry, index>> in the body.
\* The shape of an entry: whether it has the "assets" key, and the kinds of
\* its assets.  A body holds at most MaxEntries entries and MaxAssets assets.
EntryShapes(n) ==
    IF n < 0 THEN {[has |-> FALSE, kinds |-> <<>>]}
    ELSE {[has |-> TRUE, kinds |-> ks] : ks \in [1..n -> AssetKinds]}
RECURSIVE TotalAssets(_)
TotalAssets(lens) ==
    IF lens = <<>> THEN 0
    ELSE (IF Head(lens) < 0 THEN 0 ELSE Head(lens)) + TotalAssets(Tail(lens))
EntryLengths ==
    {lens \in BoundedSeq(-1..MaxAssets, MaxEntries) : TotalAssets(lens) <= MaxAssets}
RECURSIVE ShapesOfLengths(_)
ShapesOfLengths(lens) ==
    IF lens = <<>> THEN {<<>>}
    ELSE {<<h>> \o t : h \in EntryShapes(Head(lens)), t \in ShapesOfLengths(Tail(lens))}
MemoryLaneShapes == UNION {ShapesOfLengths(lens) : lens \in EntryLengths}
Entry(e, shape) ==
    [keys |-> IF shape.has THEN {"assets"} ELSE {},
     assets |-> [i \in 1..Len(shape.kinds) |-> Asset(<<e, i>>, shape.kinds[i])]]
MemoryLaneBodies ==
    {PyList([e \in 1..Len(s) |-> Entry(e, s[e])]) : s \in MemoryLaneShapes}

OkBodies(op) ==
    CASE op = "authenticate" -> AuthBodies
      [] op = "get_my_user_info" -> UserBodies
      [] op = "get_asset_info" -> AssetBodies
      [] op = "download_asset" -> ThumbnailBodies
      [] op = "list_favorite_images" -> FavoriteBodies
      [] op = "list_all_albums" -> AlbumListBodies
      [] op = "list_album_images" -> AlbumBodies
      [] op = "list_memory_lane_images" -> MemoryLaneBodies

\* What the server (or the network) may answer to a request of `op`.  A
\* hub constructed on an unreachable host gets transport failures only.
Reactions(host, op) ==
    {TransportFailure(e) : e \in ClientErrors}
    \cup (IF host = "unreachable" THEN {}
          ELSE {Response(s, b) : s \in Statuses \ {200}, b \in ErrorBodies}
               \cup {Response(200, b) : b \in OkBodies(op)})

\* ---------------------------------------------------------------- handlers
\* `except aiohttp.ClientError as exception:` around a coroutine body: log,
\* then `raise CannotConnect from exception`.  Any other exception passes.
\* Mutant: CannotConnect raised without `from exception`.
ExceptClientError_unchained(h) ==
    IF h.outcome.kind = "raise" /\ IsClientError(h.outcome.exc)
    THEN LET before == SubSeq(h.events, 1, Len(h.events) - 1)
             handler == LogErrorThen("Error connecting to the API: %s",
                                     PyText(h.outcome.exc),
                                     Raise("CannotConnect", NoCause))
         IN [events |-> before \o handler.events,
             logs |-> h.logs \o handler.logs,
             outcome |-> handler.outcome]
    ELSE h

\* Mutant: the request is sent a second time before giving up.
ExceptClientError_retry(h) ==
    IF h.outcome.kind = "raise" /\ IsClientError(h.outcome.exc)
    THEN LET before == SubSeq(h.events, 1, Len(h.events) - 1)
             handler == LogErrorThen("Error connecting to the API: %s",
                                     PyText(h.outcome.exc),
                                     Raise("CannotConnect", h.outcome.exc))
         IN [events |-> before \o <<"request">> \o handler.events,
             logs |-> h.logs \o handler.logs,
             outcome |-> handler.outcome]
    ELSE h

ExceptClientError(h) ==
    IF h.outcome.kind = "raise" /\ IsClientError(h.outcome.exc)
    THEN LET before == SubSeq(h.events, 1, Len(h.events) - 1)
             handler == LogErrorThen("Error connecting to the API: %s",
                                     PyText(h.outcome.exc),
                                     Raise("CannotConnect", h.outcome.exc))
         IN [events |-> before \o handler.events,
             logs |-> h.logs \o handler.logs,
             outcome |-> handler.outcome]
    ELSE h

\* The status branch shared by the JSON accessors: log the body, raise ApiError.
\* Mutant: the body is logged and handed back instead of raising.
RaiseApiError_returns(r) ==
    LogErrorThen("Error from API: body=%s", Text(r), Return(r.body))

RaiseApiError(r) ==
    LogErrorThen("Error from API: body=%s", Text(r), Raise("ApiError", NoCause))

\* Mutant: any 200 counts as authenticated, authStatus is not looked at.
authenticate_try_any200(r) ==
    IF r.kind = "error" THEN Raise(r.error, NoCause)
    ELSE IF r.status # 200
    THEN LogErrorThen("Error from API: body=%s", Text(r), Return(PyBool(FALSE)))
    ELSE Return(PyBool(TRUE))

authenticate_try(r) ==
    IF r.kind = "error" THEN Raise(r.error, NoCause)
    ELSE IF r.status # 200
    THEN LogErrorThen("Error from API: body=%s", Text(r), Return(PyBool(FALSE)))
    ELSE LET auth_result == Json(r)
         IN IF ~Truthy(DictGet(auth_result, "authStatus"))
            THEN LogErrorThen("Error from API: body=%s", Text(r), Return(PyBool(FALSE)))
            ELSE Return(PyBool(TRUE))
authenticate(r) == ExceptClientError(authenticate_try(r))

get_my_user_info_try(r) ==
    IF r.kind = "error" THEN Raise(r.error, NoCause)
    ELSE IF r.status # 200 THEN RaiseApiError(r)
    ELSE Return(PyDict(Json(r)))
get_my_user_info(r) == ExceptClientError(get_my_user_info_try(r))

get_asset_info_try(r) ==
    IF r.kind = "error" THEN Raise(r.error, NoCause)
    ELSE IF r.status # 200 THEN RaiseApiError(r)
    ELSE Return(PyDict(Json(r)))
get_asset_info(r) == ExceptClientError(get_asset_info_try(r))

\* Mutant: a status other than 200 raises ApiError, as in the JSON accessors.
download_asset_try_raises(r) ==
    IF r.kind = "error" THEN Raise(r.error, NoCause)
    ELSE IF r.status # 200 THEN RaiseApiError(r)
    ELSE Return(PyBytes(Read(r)))

download_asset_try(r) ==
    IF r.kind = "error" THEN Raise(r.error, NoCause)
    ELSE IF r.status # 200
    THEN LogErrorThen("Error from API: status=%d", PyInt(r.status), Return(PyNone))
    ELSE Return(PyBytes(Read(r)))
download_asset(r) == ExceptClientError(download_asset_try(r))

\* [asset for asset in assets if asset["type"] == "IMAGE"]: the assets are
\* visited in order; asset["type"] raises KeyError on an asset without the
\* key, which ends the comprehension.
RECURSIVE filter_images_from(_, _, _)
filter_images_from(assets, i, filtered_assets) ==
    IF i > Len(assets) THEN [ok |-> TRUE, list |-> filtered_assets]
    ELSE IF ~Has(assets[i], "type") THEN [ok |-> FALSE, list |-> <<>>]
    ELSE IF assets[i].type = "IMAGE"
    THEN filter_images_from(assets, i + 1, Append(filtered_assets, assets[i]))
    ELSE filter_images_from(assets, i + 1, filtered_assets)
\* Mutant: the comprehension without its condition.
filter_images_unfiltered(assets) ==
    IF \A i \in 1..Len(assets) : Has(assets[i], "type")
    THEN [ok |-> TRUE, list |-> assets]
    ELSE [ok |-> FALSE, list |-> <<>>]

filter_images(assets) == filter_images_from(assets, 1, <<>>)

list_favorite_images_try(r) ==
    IF r.kind = "error" THEN Raise(r.error, NoCause)
    ELSE IF r.status # 200 THEN RaiseApiError(r)
    ELSE LET favorites == Json(r)
         IN IF ~Has(favorites, "assets") THEN Raise("KeyError", NoCause)
            ELSE IF ~Has(favorites.assets, "items") THEN Raise("KeyError", NoCause)
            ELSE LET filtered == filter_images(favorites.assets.items)
                 IN IF filtered.ok THEN Return(PyList(filtered.list))
                    ELSE Raise("KeyError", NoCause)
list_favorite_images(r) == ExceptClientError(list_favorite_images_try(r))

list_all_albums_try(r) ==
    IF r.kind = "error" THEN Raise(r.error, NoCause)
    ELSE IF r.status # 200 THEN RaiseApiError(r)
    ELSE Return(PyList(Json(r)))
list_all_albums(r) == ExceptClientError(list_all_albums_try(r))

list_album_images_try(r) ==
    IF r.kind = "error" THEN Raise(r.error, NoCause)
    ELSE IF r.status # 200 THEN RaiseApiError(r)
    ELSE LET album_info == Json(r)
         IN IF ~Has(album_info, "assets") THEN Raise("KeyError", NoCause)
            ELSE LET filtered == filter_images(album_info.assets)
                 IN IF filtered.ok THEN Return(PyList(filtered.list))
                    ELSE Raise("KeyError", NoCause)
list_album_images(r) == ExceptClientError(list_album_images_try(r))

\* The nested loops of list_memory_lane_images: items in order, each item's
\* assets in order, appending the assets whose .get("type") is "IMAGE".
\* item["assets"] raises KeyError on an entry without the key.
\* Mutant: assets.insert(0, asset) in place of assets.append(asset).
RECURSIVE memory_lane_inner_prepend(_, _, _)
memory_lane_inner_prepend(item_assets, j, assets) ==
    IF j > Len(item_assets) THEN assets
    ELSE IF Has(item_assets[j], "type") /\ item_assets[j].type = "IMAGE"
    THEN memory_lane_inner_prepend(item_assets, j + 1, <<item_assets[j]>> \o assets)
    ELSE memory_lane_inner_prepend(item_assets, j + 1, assets)

RECURSIVE memory_lane_inner(_, _, _)
memory_lane_inner(item_assets, j, assets) ==
    IF j > Len(item_assets) THEN assets
    ELSE IF Has(item_assets[j], "type") /\ item_assets[j].type = "IMAGE"
    THEN memory_lane_inner(item_assets, j + 1, Append(assets, item_assets[j]))
    ELSE memory_lane_inner(item_assets, j + 1, assets)
RECURSIVE memory_lane_outer(_, _, _)
memory_lane_outer(items, i, assets) ==
    IF i > Len(items) THEN [ok |-> TRUE, list |-> assets]
    ELSE IF ~Has(items[i], "assets") THEN [ok |-> FALSE, list |-> <<>>]
    ELSE memory_lane_outer(items, i + 1, memory_lane_inner(items[i].assets, 1, assets))
memory_lane_assets(items) == memory_lane_outer(items, 1, <<>>)

\* No try/except here: whatever the session raises leaves the coroutine as is.
list_memory_lane_images(r) ==
    IF r.kind = "error" THEN Raise(r.error, NoCause)
    ELSE IF r.status # 200 THEN RaiseApiError(r)
    ELSE LET assets == memory_lane_assets(Json(r))
         IN IF assets.ok THEN Return(PyList(assets.list))
            ELSE Raise("KeyError", NoCause)

\* ------------------------------------------------------------------ state
\* The request each accessor sends: method, path under self.host, headers.
Endpoint(op) ==
    CASE op = "authenticate" ->
            [method |-> "POST", path |-> "/api/auth/validateToken", accept |-> TRUE]
      [] op = "get_my_user_info" ->
            [method |-> "GET", path |-> "/api/users/me", accept |-> TRUE]
      [] op = "get_asset_info" ->
            [method |-> "GET", path |-> "/api/assets/{asset_id}", accept |-> TRUE]
      [] op = "download_asset" ->
            [method |-> "GET", path |-> "/api/assets/{asset_id}/thumbnail?size=preview",
             accept |-> FALSE]
      [] op = "list_favorite_images" ->
            [method |-> "POST", path |-> "/api/search/metadata", accept |-> TRUE]
      [] op = "list_all_albums" ->
            [method |-> "GET", path |-> "/api/albums", accept |-> TRUE]
      [] op = "list_album_images" ->
            [method |-> "GET", path |-> "/api/albums/{album_id}", accept |-> TRUE]
      [] op = "list_memory_lane_images" ->
            [method |-> "GET", path |-> "/api/assets/memory-lane?day={day}&month={month}",
             accept |-> TRUE]

Idle == [pc |-> "idle", op |-> "none", sent |-> 0]
NoResult == [op |-> "none"]

\* ImmichHub.__init__: the host and key are stored, one session is created,
\* no request is sent.  The host is one the network reaches or one it does not.
Init ==
    /\ hub \in {[host |-> h, session |-> "open"] : h \in {"reachable", "unreachable"}}
    /\ calls = [c \in Callers |-> Idle]
    /\ result = NoResult

\* close_session.  The caller closes the session when no accessor is in
\* flight and calls no accessor afterwards.
close_session ==
    /\ hub.session = "open"
    /\ result = NoResult
    /\ \A c \in Callers : calls[c].pc = "idle"
    /\ hub' = [hub EXCEPT !.session = "closed"]
    /\ UNCHANGED <<calls, result>>

\* An accessor up to its `async with self.session.<method>(...)`: the
\* request goes out on the shared session and the coroutine suspends.
Issue(c, op) ==
    /\ hub.session = "open"
    /\ result = NoResult
    /\ calls[c].pc = "idle"
    /\ calls' = [calls EXCEPT ![c] = [pc |-> "awaiting", op |-> op, sent |-> 1]]
    /\ UNCHANGED <<hub, result>>

\* The accessor from the reaction to its end.
Finish(c, op, r, h) ==
    /\ result' = [op |-> op, request |-> Endpoint(op), reaction |-> r,
                  events |-> [i \in 1..calls[c].sent |-> "request"] \o h.events,
                  logs |-> h.logs, outcome |-> h.outcome]
    /\ calls' = [calls EXCEPT ![c] = Idle]
    /\ UNCHANGED hub

\* The event loop runs one coroutine at a time: a suspended accessor is
\* resumed once the caller of the one that finished before has its result.
Awaiting(c, op) == result = NoResult /\ calls[c].pc = "awaiting" /\ calls[c].op = op

\* The caller that awaited the finished accessor gets the value or the exception.
caller_takes_result ==
    /\ result # NoResult
    /\ result' = NoResult
    /\ UNCHANGED <<hub, calls>>

authenticate_call(c) == Issue(c, "authenticate")
authenticate_resume(c) ==
    /\ Awaiting(c, "authenticate")
    /\ \E r \in Reactions(hub.host, "authenticate") : Finish(c, "authenticate", r, authenticate(r))

get_my_user_info_call(c) == Issue(c, "get_my_user_info")
get_my_user_info_resume(c) ==
    /\ Awaiting(c, "get_my_user_info")
    /\ \E r \in Reactions(hub.host, "get_my_user_info") :
          Finish(c, "get_my_user_info", r, get_my_user_info(r))

get_asset_info_call(c) == Issue(c, "get_asset_info")
get_asset_info_resume(c) ==
    /\ Awaiting(c, "get_asset_info")
    /\ \E r \in Reactions(hub.host, "get_asset_info") :
          Finish(c, "get_asset_info", r, get_asset_info(r))

download_asset_call(c) == Issue(c, "download_asset")
download_asset_resume(c) ==
    /\ Awaiting(c, "download_asset")
    /\ \E r \in Reactions(hub.host, "download_asset") :
          Finish(c, "download_asset", r, download_asset(r))

list_favorite_images_call(c) == Issue(c, "list_favorite_images")
list_favorite_images_resume(c) ==
    /\ Awaiting(c, "list_favorite_images")
    /\ \E r \in Reactions(hub.host, "list_favorite_images") :
          Finish(c, "list_favorite_images", r, list_favorite_images(r))

list_all_albums_call(c) == Issue(c, "list_all_albums")
list_all_albums_resume(c) ==
    /\ Awaiting(c, "list_all_albums")
    /\ \E r \in Reactions(hub.host, "list_all_albums") :
          Finish(c, "list_all_albums", r, list_all_albums(r))

list_album_images_call(c) == Issue(c, "list_album_images")
list_album_images_resume(c) ==
    /\ Awaiting(c, "list_album_images")
    /\ \E r \in Reactions(hub.host, "list_album_images") :
          Finish(c, "list_album_images", r, list_album_images(r))

list_memory_lane_images_call(c) == Issue(c, "list_memory_lane_images")
list_memory_lane_images_resume(c) ==
    /\ Awaiting(c, "list_memory_lane_images")
    /\ \E r \in Reactions(hub.host, "list_memory_lane_images") :
          Finish(c, "list_memory_lane_images", r, list_memory_lane_images(r))

Next ==
    \/ close_session
    \/ caller_takes_result
    \/ \E c \in Callers :
          \/ authenticate_call(c) \/ authenticate_resume(c)
          \/ get_my_user_info_call(c) \/ get_my_user_info_resume(c)
          \/ get_asset_info_call(c) \/ get_asset_info_resume(c)
          \/ download_asset_call(c) \/ download_asset_resume(c)
          \/ list_favorite_images_call(c) \/ list_favorite_images_resume(c)
          \/ list_all_albums_call(c) \/ list_all_albums_resume(c)
          \/ list_album_images_call(c) \/ list_album_images_resume(c)
          \/ list_memory_lane_images_call(c) \/ list_memory_lane_images_resume(c)

Spec == Init /\ [][Next]_vars

\* ------------------------------------------------------------------ claims
Done == result # NoResult
Finished(op) == Done /\ result.op = op
GotResponse == Done /\ result.reaction.kind = "response"
GotTransportFailure == Done /\ result.reaction.kind = "error"
Returned == Done /\ result.outcome.kind = "return"
Raised(exc) == Done /\ result.outcome.kind = "raise" /\ result.outcome.exc = exc
ReturnedNone == Returned /\ result.outcome.value.tag = "none"
ReturnedBool(b) ==
    Returned /\ result.outcome.value.tag = "bool" /\ result.outcome.value.v = b

\* C1: when the token-validation request is answered (no transport
\* failure), authenticate returns True exactly when the status is 200 and
\* the body's authStatus is present and truthy, and returns False (raising
\* nothing) in every other case.
C1_AuthenticateIffOkAndAuthStatus ==
    (Finished("authenticate") /\ GotResponse) =>
        LET r == result.reaction
            ok == /\ r.status = 200
                  /\ "authStatus" \in r.body.v.keys
                  /\ r.body.v.authStatus \in {"true", "1", "\"ok\""}
        IN IF ok THEN ReturnedBool(TRUE) ELSE ReturnedBool(FALSE)

C1_Witness ==
    /\ Finished("authenticate")
    /\ result.reaction.kind = "response"
    /\ result.reaction.status = 200
    /\ result.reaction.body.v.keys = {"authStatus"}
    /\ result.reaction.body.v.authStatus = "false"
    /\ ReturnedBool(FALSE)

RaisingOps == {"get_my_user_info", "get_asset_info", "list_favorite_images",
               "list_all_albums", "list_album_images", "list_memory_lane_images"}

\* C2: a non-2xx status makes each of the six JSON accessors raise ApiError;
\* the call yields no value.
C2_Non2xxRaisesApiError ==
    (Done /\ result.op \in RaisingOps /\ GotResponse
        /\ result.reaction.status \notin 200..299) =>
        /\ Raised("ApiError")
        /\ ~Returned
        /\ result.outcome.value.tag = "none"

C2_Witness ==
    /\ Finished("list_memory_lane_images")
    /\ result.reaction.kind = "response"
    /\ result.reaction.status = 404
    /\ Raised("ApiError")

WrappingOps == Ops \ {"list_memory_lane_images"}

C4_UnreachableHostRaisesCannotConnect ==
    (Done /\ hub.host = "unreachable") => Raised("CannotConnect")

FilteringOps == {"list_favorite_images", "list_album_images", "list_memory_lane_images"}

IsImage(asset) == "type" \in asset.keys /\ asset.type = "IMAGE"

RECURSIVE Concat(_)
Concat(lists) == IF lists = <<>> THEN <<>> ELSE Head(lists) \o Concat(Tail(lists))

\* The assets a 200 body carries, in the order the server sent them, and
\* whether the body has every field the accessor reads.
HasAssetsPath(op, body) ==
    CASE op = "list_favorite_images" ->
            "assets" \in body.keys /\ "items" \in body.assets.keys
      [] op = "list_album_images" -> "assets" \in body.keys
      [] op = "list_memory_lane_images" ->
            \A e \in 1..Len(body) : "assets" \in body[e].keys
SuppliedAssets(op, body) ==
    CASE op = "list_favorite_images" -> body.assets.items
      [] op = "list_album_images" -> body.assets
      [] op = "list_memory_lane_images" ->
            Concat([e \in 1..Len(body) |-> body[e].assets])
WellFormed(op, body) ==
    /\ HasAssetsPath(op, body)
    /\ \A i \in 1..Len(SuppliedAssets(op, body)) :
          "type" \in SuppliedAssets(op, body)[i].keys

\* C5: on a 200 response the three image listings return exactly the
\* subsequence of the supplied assets whose type is "IMAGE", in the
\* original order: nothing else, nothing dropped, nothing duplicated.
C5_ReturnsExactlyTheImages ==
    (Done /\ result.op \in FilteringOps /\ GotResponse /\ result.reaction.status = 200) =>
        LET body == result.reaction.body.v
        IN /\ WellFormed(result.op, body) => Returned
           /\ Returned =>
                /\ result.outcome.value.tag = "list"
                /\ result.outcome.value.v = SelectSeq(SuppliedAssets(result.op, body), IsImage)

C5_Witness ==
    /\ Finished("list_favorite_images")
    /\ result.reaction.kind = "response"
    /\ result.reaction.status = 200
    /\ "assets" \in result.reaction.body.v.keys
    /\ "items" \in result.reaction.body.v.assets.keys
    /\ result.reaction.body.v.assets.items =
          <<Asset(1, "IMAGE"), Asset(2, "VIDEO"), Asset(3, "IMAGE")>>
    /\ Returned
    /\ result.outcome.value.v = <<Asset(1, "IMAGE"), Asset(3, "IMAGE")>>

\* <<e1, i1>> comes before <<e2, i2>>: earlier entry, or same entry and earlier asset.
PositionBefore(a, b) == a[1] < b[1] \/ (a[1] = b[1] /\ a[2] < b[2])

\* C6: on a 200 response list_memory_lane_images returns one flat list in
\* which the IMAGE assets of all entries appear in entry order first and in
\* intra-entry order second; entries without an IMAGE asset add nothing.
C6_MemoryLaneFlattenedInOrder ==
    (Finished("list_memory_lane_images") /\ GotResponse
        /\ result.reaction.status = 200 /\ Returned) =>
        LET items == result.reaction.body.v
            out == result.outcome.value.v
        IN /\ result.outcome.value.tag = "list"
           /\ \A p \in 1..Len(out) :
                LET pos == out[p].id
                IN /\ pos[1] \in 1..Len(items)
                   /\ pos[2] \in 1..Len(items[pos[1]].assets)
                   /\ out[p] = items[pos[1]].assets[pos[2]]
                   /\ out[p].type = "IMAGE"
           /\ \A p, q \in 1..Len(out) : p < q => PositionBefore(out[p].id, out[q].id)
           /\ \A e \in 1..Len(items) : \A i \in 1..Len(items[e].assets) :
                IsImage(items[e].assets[i]) =>
                    \E p \in 1..Len(out) : out[p].id = <<e, i>>

C6_Witness ==
    /\ Finished("list_memory_lane_images")
    /\ result.reaction.kind = "response"
    /\ result.reaction.status = 200
    /\ result.reaction.body.v =
          <<Entry(1, [has |-> TRUE, kinds |-> <<"IMAGE">>]),
            Entry(2, [has |-> TRUE, kinds |-> <<"VIDEO", "IMAGE">>])>>
    /\ Returned
    /\ result.outcome.value.v = <<Asset(<<1, 1>>, "IMAGE"), Asset(<<2, 2>>, "IMAGE")>>

\* C7: download_asset returns the bytes of the body as received on a 200,
\* and returns None, raising nothing, on any other status.
C7_DownloadBytesOrNone ==
    (Finished("download_asset") /\ GotResponse) =>
        IF result.reaction.status = 200
        THEN /\ Returned
             /\ result.outcome.value.tag = "bytes"
             /\ result.outcome.value.v = result.reaction.body.v
        ELSE ReturnedNone

C7_Witness ==
    /\ Finished("download_asset")
    /\ result.reaction.kind = "response"
    /\ result.reaction.status = 200
    /\ result.reaction.body.v = <<0, 255>>
    /\ Returned
    /\ result.outcome.value.v = <<0, 255>>

\* The tag of the value each accessor declares to return.
DeclaredTags(op) ==
    CASE op = "authenticate" -> {"bool"}
      [] op = "get_my_user_info" -> {"dict"}
      [] op = "get_asset_info" -> {"dict", "none"}
      [] op = "download_asset" -> {"bytes", "none"}
      [] OTHER -> {"list"}

\* C8: whatever the server does, an accessor either returns a value of its
\* declared shape or raises CannotConnect, InvalidAuth or ApiError; no
\* other exception leaves it.
C8_ReturnsOrRaisesTypedFailure ==
    Done =>
        \/ Returned /\ result.outcome.value.tag \in DeclaredTags(result.op)
        \/ result.outcome.kind = "raise" /\ result.outcome.exc \in HubErrors

\* The failure paths: a transport failure, a status other than 200,
\* authenticate returning False, download_asset returning None.
OnFailurePath ==
    \/ GotTransportFailure
    \/ GotResponse /\ result.reaction.status # 200
    \/ Finished("authenticate") /\ ReturnedBool(FALSE)
    \/ Finished("download_asset") /\ ReturnedNone

\* C9: on every failure path the hub logs a line before it raises or
\* returns the failure sentinel.
C9_FailureIsLoggedFirst ==
    (Done /\ OnFailurePath) =>
        \E i \in 1..Len(result.events) :
            /\ result.events[i] = "log"
            /\ \E j \in (i + 1)..Len(result.events) : result.events[j] \in {"return", "raise"}

Count(events, ev) == Cardinality({i \in 1..Len(events) : events[i] = ev})

\* C10: every accessor call sends exactly one request and then ends: a
\* suspended call has sent one request, and a finished call sent one
\* request, first, and ended once, last, whatever the reaction was and
\* whatever other calls were in flight.
C10_OneRequestPerCall ==
    /\ \A c \in Callers :
          /\ calls[c].sent <= 1
          /\ calls[c].pc = "awaiting" => calls[c].sent = 1
    /\ Done =>
          /\ Count(result.events, "request") = 1
          /\ result.events[1] = "request"
          /\ Count(result.events, "return") + Count(result.events, "raise") = 1
          /\ result.events[Len(result.events)] \in {"return", "raise"}

C10_Witness ==
    /\ Finished("get_my_user_info")
    /\ result.reaction.kind = "error"
    /\ Count(result.events, "request") = 1
    /\ \E c \in Callers : calls[c].pc = "awaiting" /\ calls[c].op = "list_favorite_images"

====
